---------------------------- MODULE Spec2Model ----------------------------
(***************************************************************************)
(* A model of dagny_nav_launch/primitives.py: the path segments Linear,   *)
(* Arc, Spiral and Compound with their shared Segment interface           *)
(* (get_end, get_length, get_score, get_pose, get_poses).                  *)
(*                                                                         *)
(* Numbers.  The program computes with Python numbers.  The model uses    *)
(* exact integers in fixed units:                                          *)
(*   - positions, arc lengths and resolutions: whole length units;         *)
(*   - headings, angular velocities and spiral slopes: units of 1/Unit     *)
(*     (Unit = 10^(Decimals+1)), one decimal place finer than the          *)
(*     round(..., 4) of the constructors, so that values on both sides of  *)
(*     the rounding threshold exist;                                       *)
(*   - quotients length / n and length / resolution: exact rationals       *)
(*     [num, den]: the true division of float arguments, without its       *)
(*     rounding error.                                                     *)
(* math.sin and math.cos are evaluated at the heading rounded to the       *)
(* nearest quarter turn, where they are exact (-1, 0, 1).  scipy's         *)
(* fresnel is not evaluated: FresnelS and FresnelC are integer stand-ins   *)
(* that are functions of their argument only, so equal arguments give a    *)
(* zero difference; the x and y of a spiral pose away from arc length 0    *)
(* carry no meaning and no property below reads them.                      *)
(*                                                                         *)
(* The model follows one object: constructors are called until one         *)
(* returns, then methods are called on that object; the most recent        *)
(* constructor call and the most recent method call are logged.            *)
(***************************************************************************)
EXTENDS Integers, Sequences, FiniteSets

VARIABLES
    seg,        \* the object under observation (kind "None": there is none)
    reference,  \* self._reference
    score,      \* self._score (unset until the first get_score)
    ctor,       \* log of the most recent constructor call
    op,         \* name of the most recent method call on seg
    arg,        \* its arguments
    ret,        \* its outcome
    refLog      \* the references of the last two get_score calls on seg,
                \* most recent first

vars == <<seg, reference, score, ctor, op, arg, ret, refLog>>

----------------------------------------------------------------------------
(* Bounds of the model *)

MaxLength == 3      \* leaf segments have lengths 0..MaxLength
MaxChildren == 2    \* a Compound has 1..MaxChildren children
MaxOver == 1        \* get_pose is asked up to MaxOver past the length
MaxN == 1           \* get_poses: n in 0..MaxN
MaxRes == 2         \* get_poses: resolution in 0..MaxRes

(* Program constants *)

Decimals == 4                   \* round(start[3], 4)
HalfTurn == 314159              \* math.pi, in units of 1/Unit

RECURSIVE Pow10(_)
Pow10(k) == IF k = 0 THEN 1 ELSE 10 * Pow10(k - 1)

Unit == Pow10(Decimals + 1)     \* angular units per 1
QuarterTurn == HalfTurn \div 2

----------------------------------------------------------------------------
(* Arithmetic helpers *)

Abs(a) == IF a < 0 THEN -a ELSE a

\* float division a / b, b # 0, rounded toward zero to a whole unit
Quot(a, b) ==
    LET q == Abs(a) \div Abs(b)
    IN  IF (a < 0) = (b < 0) THEN q ELSE -q

\* exact rationals with positive denominator
Rat(a, b) == IF b < 0 THEN [num |-> -a, den |-> -b] ELSE [num |-> a, den |-> b]
RatInt(a) == [num |-> a, den |-> 1]
RatDiv(p, q) == Rat(p.num * q.den, p.den * q.num)          \* q.num # 0
RatLt(p, q) == p.num * q.den < q.num * p.den
RatIsZero(p) == p.num = 0
RatAddHalf(p) == [num |-> 2 * p.num + p.den, den |-> 2 * p.den]

\* Python 2 round(): to the nearest integer, halves away from zero
PyRound(p) ==
    IF p.num >= 0
    THEN (2 * p.num + p.den) \div (2 * p.den)
    ELSE -((2 * (-p.num) + p.den) \div (2 * p.den))

\* a variant of Round4 that truncates toward zero instead of rounding
Round4Truncating(v) == Quot(v * Pow10(Decimals), Unit)

\* round(v, 4) for v in units of 1/Unit: the rounded value, in units of
\* 10^-Decimals
Round4(v) == PyRound(Rat(v * Pow10(Decimals), Unit))

\* math.cos / math.sin at the nearest quarter turn
Quadrant(theta) == ((theta + QuarterTurn \div 2) \div QuarterTurn) % 4
Cos(theta) == LET k == Quadrant(theta)
              IN  IF k = 0 THEN 1 ELSE IF k = 2 THEN -1 ELSE 0
Sin(theta) == LET k == Quadrant(theta)
              IN  IF k = 1 THEN 1 ELSE IF k = 3 THEN -1 ELSE 0

\* stand-ins for scipy.special.fresnel (S, C) at the argument
\* num / cmath.sqrt(math.pi * w), identified by its numerator
FresnelS(num) == Quot(num, 2 * Unit)
FresnelC(num) == Quot(num, Unit)

----------------------------------------------------------------------------
(* Poses are tuples <<x, y, theta, omega>>; Python's pose[k] is pose[k+1] *)

ZeroPose == <<0, 0, 0, 0>>

\* Segment.__init__
SegmentInit ==
    [kind |-> "None", length |-> 0, end |-> ZeroPose, start |-> ZeroPose,
     w |-> 0, segments |-> <<>>]

NoReference == [set |-> FALSE, pose |-> ZeroPose]   \* self._reference = None
NoScore == [set |-> FALSE, val |-> 0]               \* self._score not yet assigned

\* Linear.get_pose
LinearGetPose(start, length) ==
    LET x == start[1] + length * Cos(start[3])
        y == start[2] + length * Sin(start[3])
    IN  <<x, y, start[3], 0>>

\* Arc.get_pose
ArcGetPose(start, length) ==
    LET angular_velocity == start[4]
        time == length
        t == start[3] + angular_velocity * time
        x == start[1] + Quot((Sin(start[3] + (time * angular_velocity))
                                - Sin(start[3])) * Unit, angular_velocity)
        y == start[2] - Quot((Cos(start[3] + (time * angular_velocity))
                                - Cos(start[3])) * Unit, angular_velocity)
    IN  <<x, y, t, start[4]>>

\* Spiral.get_pose.  The slopes used are even, so the halving is exact; the
\* asserts on the imaginary parts of dx and dy are taken to pass.
SpiralGetPose(start, w, length) ==
    LET omega0 == start[4]
        theta0 == start[3]
        omega == omega0 + w * length
        theta == theta0 + (w * length * length) \div 2
        time == IF w < 0 THEN -length ELSE length
        S1 == FresnelS(omega0)
        C1 == FresnelC(omega0)
        S2 == FresnelS(omega0 + w * time)
        C2 == FresnelC(omega0 + w * time)
        t0 == Quot(omega0 * omega0, 2 * w) - theta0
        dx == Cos(t0) * (C2 - C1) + Sin(t0) * (S2 - S1)
        dy == Sin(t0) * (C1 - C2) + Cos(t0) * (S2 - S1)
    IN  <<start[1] + dx, start[2] + dy, theta, omega>>

\* get_pose of a leaf segment (dynamic dispatch on the class)
LeafGetPose(s, length) ==
    IF s.kind = "Linear" THEN LinearGetPose(s.start, length)
    ELSE IF s.kind = "Arc" THEN ArcGetPose(s.start, length)
    ELSE SpiralGetPose(s.start, s.w, length)

----------------------------------------------------------------------------
(* Constructors: [ok, seg]; ok = FALSE when an assert of __init__ fails *)

\* Linear.__init__
LinearNew(start, length) ==
    [ok  |-> Round4(start[4]) = 0,
     seg |-> [SegmentInit EXCEPT !.kind = "Linear", !.length = length,
                !.start = start, !.end = LinearGetPose(start, length)]]

\* Arc.__init__
ArcNew(start, length) ==
    [ok  |-> Round4(start[4]) # 0,
     seg |-> [SegmentInit EXCEPT !.kind = "Arc", !.length = length,
                !.start = start,
                !.end = IF start[4] # 0 THEN ArcGetPose(start, length)
                        ELSE ZeroPose]]

\* Spiral.__init__
SpiralNew(start, length, w) ==
    [ok  |-> w # 0,
     seg |-> [SegmentInit EXCEPT !.kind = "Spiral", !.length = length,
                !.start = start, !.w = w,
                !.end = IF w # 0 THEN SpiralGetPose(start, w, length)
                        ELSE ZeroPose]]

RECURSIVE SumLengths(_)
SumLengths(segments) ==
    IF segments = <<>> THEN 0
    ELSE segments[1].length + SumLengths(Tail(segments))

\* Compound.__init__ (segments[-1] raises IndexError on an empty tuple)
CompoundNew(segments) ==
    [ok  |-> segments # <<>>,
     seg |-> [SegmentInit EXCEPT !.kind = "Compound",
                !.segments = segments,
                !.start = ZeroPose,
                !.end = IF segments # <<>> THEN segments[Len(segments)].end
                        ELSE ZeroPose,
                !.length = SumLengths(segments)]]


----------------------------------------------------------------------------
(* Compound.get_pose: [pose, child, local].  child is the (1-based) index  *)
(* of the child whose get_pose was called, with argument local; child = 0  *)
(* when no child was asked (the clamp: return self._end).                  *)

RECURSIVE CompoundScan(_, _, _, _, _)
CompoundScan(c, length, i, base, l) ==
    IF length > l
    THEN IF i + 1 > Len(c.segments)
         THEN [pose |-> c.end, child |-> 0, local |-> 0]
         ELSE CompoundScan(c, length, i + 1, l, l + c.segments[i + 1].length)
    ELSE [pose  |-> LeafGetPose(c.segments[i], length - base),
          child |-> i, local |-> length - base]

\* a variant of the scan whose loop test is length >= l
RECURSIVE CompoundScanEager(_, _, _, _, _)
CompoundScanEager(c, length, i, base, l) ==
    IF length >= l
    THEN IF i + 1 > Len(c.segments)
         THEN [pose |-> c.end, child |-> 0, local |-> 0]
         ELSE CompoundScanEager(c, length, i + 1, l, l + c.segments[i + 1].length)
    ELSE [pose  |-> LeafGetPose(c.segments[i], length - base),
          child |-> i, local |-> length - base]

CompoundGetPoseEager(c, length) ==
    CompoundScanEager(c, length, 1, 0, c.segments[1].length)

\* a variant of the scan without the test i >= len(self._segments): past the
\* end it asks the last child
RECURSIVE CompoundScanUnclamped(_, _, _, _, _)
CompoundScanUnclamped(c, length, i, base, l) ==
    IF length > l /\ i + 1 <= Len(c.segments)
    THEN CompoundScanUnclamped(c, length, i + 1, l, l + c.segments[i + 1].length)
    ELSE [pose  |-> LeafGetPose(c.segments[i], length - base),
          child |-> i, local |-> length - base]

CompoundGetPoseUnclamped(c, length) ==
    CompoundScanUnclamped(c, length, 1, 0, c.segments[1].length)

CompoundGetPose(c, length) ==
    CompoundScan(c, length, 1, 0, c.segments[1].length)

\* self.get_pose(length) on any segment
GetPose(s, length) ==
    IF s.kind = "Compound" THEN CompoundGetPose(s, length)
    ELSE [pose |-> LeafGetPose(s, length), child |-> 0, local |-> 0]

----------------------------------------------------------------------------
(* Segment.get_score: [val, recomputed, score], score the new self._score  *)

\* a variant of get_score that returns self._score whenever it is set
GetScoreStale(s, ref, cachedRef, cachedScore) ==
    IF cachedScore.set
    THEN [val |-> cachedScore.val, recomputed |-> FALSE, score |-> cachedScore]
    ELSE LET v == (ref[1] - s.end[1]) * (ref[1] - s.end[1])
                  + (ref[2] - s.end[2]) * (ref[2] - s.end[2])
                  + (ref[3] - s.end[3]) * (ref[3] - s.end[3])
                  + (ref[4] - s.end[4]) * (ref[4] - s.end[4])
         IN  [val |-> v, recomputed |-> TRUE,
              score |-> [set |-> TRUE, val |-> v]]

GetScore(s, ref, cachedRef, cachedScore) ==
    IF cachedRef.set /\ ref = cachedRef.pose
    THEN [val |-> cachedScore.val, recomputed |-> FALSE, score |-> cachedScore]
    ELSE LET diff == <<ref[1] - s.end[1], ref[2] - s.end[2],
                       ref[3] - s.end[3], ref[4] - s.end[4]>>
             v == diff[1] * diff[1] + diff[2] * diff[2]
                  + diff[3] * diff[3] + diff[4] * diff[4]
         IN  [val |-> v, recomputed |-> TRUE,
              score |-> [set |-> TRUE, val |-> v]]

----------------------------------------------------------------------------
(* Segment.get_poses, run to exhaustion: [err, at], at the sequence of     *)
(* arc lengths i * resolution handed to get_pose, err the exception that   *)
(* ended the iteration ("" when it ran to the end).  An argument is        *)
(* [given, val]; given = FALSE is Python's None.                           *)

None == [given |-> FALSE, val |-> 0]
Some(v) == [given |-> TRUE, val |-> v]

Raise(e) == [err |-> e, at |-> <<>>]

\* lines 57-59: n = int(round(n + 0.5)); for i in range(n): i * resolution
PosesYield(n, resolution) ==
    LET count == PyRound(RatAddHalf(n))
    IN  [err |-> "", at |-> [i \in 1..count |-> (i - 1) * resolution.val]]

\* lines 53-56, n a rational # 0
PosesRefine(length, n, resolution) ==
    LET r == RatDiv(RatInt(length), n)
    IN  \* Python 2 orders None below every number
        IF ~resolution.given \/ RatLt(RatInt(resolution.val), r)
        THEN IF ~resolution.given THEN Raise("TypeError")
             ELSE IF resolution.val = 0 THEN Raise("ZeroDivisionError")
             ELSE LET m == Rat(length, resolution.val)
                  IN  IF ~RatLt(n, m) THEN Raise("AssertionError")
                      ELSE PosesYield(m, resolution)
        ELSE PosesYield(n, resolution)

GetPoses(s, n, resolution) ==
    IF ~(n.given \/ resolution.given) THEN Raise("AssertionError")
    ELSE IF ~n.given /\ resolution.val = 0 THEN Raise("ZeroDivisionError")
    ELSE LET n1 == IF n.given THEN RatInt(n.val)
                   ELSE Rat(s.length, resolution.val)
         IN  IF RatIsZero(n1) THEN [err |-> "", at |-> <<>>]
             ELSE PosesRefine(s.length, n1, resolution)


----------------------------------------------------------------------------
(* The inputs *)

OmegaFast == 4 * Pow10(Decimals)    \* 0.4: a quarter turn in about 4 length units
SlopeFast == 2 * Pow10(Decimals)    \* 0.2

Positions == {<<2, 1>>}
Headings == {QuarterTurn}
Omegas == {0, 3, 5, -7, OmegaFast}
Slopes == {0, -2, SlopeFast}
Lengths == 0..MaxLength

Starts == {<<p[1], p[2], h, o>> : p \in Positions, h \in Headings, o \in Omegas}

\* the leaf segments a Compound is built from: constructed Linear and Arc
\* objects, some of length 0; nothing makes a child start where
\* the one before it ends
ChildPool ==
    {LinearNew(ZeroPose, l).seg : l \in {0, MaxLength}}
    \cup {ArcNew(<<2, 1, 0, OmegaFast>>, l).seg : l \in {0, MaxLength - 1}}

RECURSIVE SeqsUpTo(_, _)
SeqsUpTo(S, k) ==
    IF k = 0 THEN {<<>>}
    ELSE LET shorter == SeqsUpTo(S, k - 1)
         IN  shorter \cup {Append(q, x) : q \in shorter, x \in S}

Compositions == SeqsUpTo(ChildPool, MaxChildren)

\* reference poses, given by their offset from the end pose
Offsets == {<<0, 0, 0, 0>>, <<1, 0, 2, 0>>}
OffsetBy(pose, d) == <<pose[1] + d[1], pose[2] + d[2], pose[3] + d[3], pose[4] + d[4]>>

NoArg == [length |-> 0, n |-> None, resolution |-> None, reference |-> ZeroPose]
NoRet == [err |-> "", pose |-> ZeroPose, child |-> 0, local |-> 0,
          at |-> <<>>, poses |-> <<>>, val |-> 0, recomputed |-> FALSE]
NoCtor == [kind |-> "None", start |-> ZeroPose, length |-> 0, w |-> 0,
           n |-> 0, ok |-> FALSE]

----------------------------------------------------------------------------
(* The state machine *)

Init ==
    /\ seg = SegmentInit
    /\ reference = NoReference
    /\ score = NoScore
    /\ ctor = NoCtor
    /\ op = "none"
    /\ arg = NoArg
    /\ ret = NoRet
    /\ refLog = <<>>

\* A constructor call: a fresh object when it returns, none when it raises.
\* Objects share no mutable state, so the model follows a single one: the
\* constructors are tried until one returns an object.
Construct(kind, start, length, w, n, new) ==
    /\ ctor' = [kind |-> kind, start |-> start, length |-> length, w |-> w,
                n |-> n, ok |-> new.ok]
    /\ seg' = IF new.ok THEN new.seg ELSE SegmentInit
    /\ reference' = NoReference
    /\ score' = NoScore
    /\ op' = "none"
    /\ arg' = NoArg
    /\ ret' = NoRet
    /\ refLog' = <<>>

NewLinear ==
    /\ seg.kind = "None"
    /\ \E start \in Starts, length \in Lengths :
        Construct("Linear", start, length, 0, 0, LinearNew(start, length))

NewArc ==
    /\ seg.kind = "None"
    /\ \E start \in Starts, length \in Lengths :
        Construct("Arc", start, length, 0, 0, ArcNew(start, length))

NewSpiral ==
    /\ seg.kind = "None"
    /\ \E start \in Starts, length \in Lengths, w \in Slopes :
        Construct("Spiral", start, length, w, 0, SpiralNew(start, length, w))

NewCompound ==
    /\ seg.kind = "None"
    /\ \E segments \in Compositions :
        Construct("Compound", ZeroPose, 0, 0, Len(segments), CompoundNew(segments))

\* seg.get_end()
CallGetEnd ==
    /\ seg.kind # "None"
    /\ op' = "get_end"
    /\ arg' = NoArg
    /\ ret' = [NoRet EXCEPT !.pose = seg.end]
    /\ UNCHANGED <<seg, reference, score, ctor, refLog>>

\* seg.get_length()
CallGetLength ==
    /\ seg.kind # "None"
    /\ op' = "get_length"
    /\ arg' = NoArg
    /\ ret' = [NoRet EXCEPT !.val = seg.length]
    /\ UNCHANGED <<seg, reference, score, ctor, refLog>>

\* seg.get_pose(length)
CallGetPose ==
    /\ seg.kind # "None"
    /\ \E length \in 0..(seg.length + MaxOver) :
        LET r == GetPose(seg, length)
        IN  /\ op' = "get_pose"
            /\ arg' = [NoArg EXCEPT !.length = length]
            /\ ret' = [NoRet EXCEPT !.pose = r.pose, !.child = r.child,
                                    !.local = r.local]
    /\ UNCHANGED <<seg, reference, score, ctor, refLog>>

\* list(seg.get_poses(n, resolution))
CallGetPoses ==
    /\ seg.kind # "None"
    /\ \E n \in {None} \cup {Some(k) : k \in 0..MaxN},
          resolution \in {None} \cup {Some(k) : k \in 0..MaxRes} :
        LET r == GetPoses(seg, n, resolution)
        IN  /\ op' = "get_poses"
            /\ arg' = [NoArg EXCEPT !.n = n, !.resolution = resolution]
            /\ ret' = [NoRet EXCEPT !.err = r.err, !.at = r.at,
                          !.poses = [i \in 1..Len(r.at) |-> GetPose(seg, r.at[i]).pose]]
    /\ UNCHANGED <<seg, reference, score, ctor, refLog>>

\* seg.get_score(reference)
CallGetScore ==
    /\ seg.kind # "None"
    /\ \E d \in Offsets :
        LET ref == OffsetBy(seg.end, d)
            r == GetScore(seg, ref, reference, score)
        IN  /\ op' = "get_score"
            /\ arg' = [NoArg EXCEPT !.reference = ref]
            /\ ret' = [NoRet EXCEPT !.val = r.val, !.recomputed = r.recomputed]
            /\ score' = r.score
            /\ refLog' = IF refLog = <<>> THEN <<ref>> ELSE <<ref, refLog[1]>>
    /\ UNCHANGED <<seg, reference, ctor>>

Next ==
    \/ NewLinear
    \/ NewArc
    \/ NewSpiral
    \/ NewCompound
    \/ CallGetEnd
    \/ CallGetLength
    \/ CallGetPose
    \/ CallGetPoses
    \/ CallGetScore

Spec == Init /\ [][Next]_vars


----------------------------------------------------------------------------
(* Vocabulary of the properties *)

IsCall(name) == seg.kind # "None" /\ op = name

\* the sum of the lengths of the first i children
RECURSIVE CumLength(_, _)
CumLength(segments, i) ==
    IF i = 0 THEN 0 ELSE CumLength(segments, i - 1) + segments[i].length

Square(a) == a * a

\* 10^-Decimals, the tolerance 1e-4, in units of 1/Unit
Tolerance == Unit \div Pow10(Decimals)

\* get_poses was called with resolution = r, r > 0, and no n
ByResolution == /\ IsCall("get_poses")
                /\ ~arg.n.given
                /\ arg.resolution.given
                /\ arg.resolution.val > 0

----------------------------------------------------------------------------
(* C1: every pose of get_poses(resolution=r), r > 0, is taken at an arc    *)
(* length strictly less than the segment's length L; the end pose (arc     *)
(* length L) is never among them, and nothing is produced when L = 0.      *)
C1_SamplesBeforeEnd ==
    ByResolution =>
        /\ ret.err = ""
        /\ \A i \in 1..Len(ret.at) : ret.at[i] < seg.length
        /\ seg.length = 0 => ret.at = <<>>

(* C2: for a Compound, get_pose(get_length()) equals get_end(), whatever   *)
(* the children's lengths (zero included) and start poses.                 *)
C2_CompoundEndIsPoseAtLength ==
    (IsCall("get_pose") /\ seg.kind = "Compound" /\ arg.length = seg.length)
        => ret.pose = seg.end

(* C3 as stated: for 0 <= q <= total length, Compound.get_pose(q) is       *)
(* c_i.get_pose(q - base) with i the first child whose cumulative end      *)
(* length exceeds q (checked wherever such a child exists) and base the    *)
(* summed length of the children before it.                                *)
C3_DelegatesToFirstExceeding ==
    (IsCall("get_pose") /\ seg.kind = "Compound" /\ arg.length <= seg.length)
        => \A i \in 1..Len(seg.segments) :
              (/\ CumLength(seg.segments, i) > arg.length
               /\ \A j \in 1..(i - 1) : CumLength(seg.segments, j) <= arg.length)
              => ret.pose = LeafGetPose(seg.segments[i],
                                arg.length - CumLength(seg.segments, i - 1))

(* C3 as amended: for 0 <= q <= total length, Compound.get_pose(q) calls   *)
(* and returns c_i.get_pose(q - base) with i the first child whose         *)
(* cumulative end length is at least q (reaches q) and base the summed     *)
(* length of the children before it.                                       *)
C3_DelegatesToFirstReaching ==
    (IsCall("get_pose") /\ seg.kind = "Compound" /\ arg.length <= seg.length)
        => \E i \in 1..Len(seg.segments) :
              /\ CumLength(seg.segments, i) >= arg.length
              /\ \A j \in 1..(i - 1) : CumLength(seg.segments, j) < arg.length
              /\ ret.child = i
              /\ ret.local = arg.length - CumLength(seg.segments, i - 1)
              /\ ret.pose = LeafGetPose(seg.segments[i], ret.local)

\* the example of the claim: children of lengths 3 and 2, get_pose(4)
C3_Witness ==
    /\ IsCall("get_pose") /\ seg.kind = "Compound"
    /\ Len(seg.segments) = 2
    /\ seg.segments[1].length = 3 /\ seg.segments[2].length = 2
    /\ arg.length = 4
    /\ ret.child = 2 /\ ret.local = 1

(* C4: for a query past the total length, Compound.get_pose returns the    *)
(* compound's end pose, which is the last child's end pose, raises         *)
(* nothing, and asks no child for a pose (so none beyond its length).      *)
C4_ClampPastEnd ==
    (IsCall("get_pose") /\ seg.kind = "Compound" /\ arg.length > seg.length)
        => /\ ret.err = ""
           /\ ret.pose = seg.end
           /\ ret.pose = seg.segments[Len(seg.segments)].end
           /\ ret.child = 0

C4_Witness ==
    /\ IsCall("get_pose") /\ seg.kind = "Compound"
    /\ Len(seg.segments) = 2
    /\ seg.segments[1].length > 0 /\ seg.segments[2].length > 0
    /\ arg.length > seg.length
    /\ ret.pose = seg.segments[2].end

(* C5: get_poses runs without an error when exactly one of n and           *)
(* resolution is supplied (a supplied resolution being positive), and      *)
(* fails when neither or both are supplied.                                *)
C5_ExactlyOneArgument ==
    (IsCall("get_poses") /\ (arg.resolution.given => arg.resolution.val > 0))
        => (ret.err = "" <=> (arg.n.given # arg.resolution.given))

(* C6: every get_score(p) returns the squared 4-dimensional distance       *)
(* between the segment's end pose and p, the reference of that very call,  *)
(* whatever references earlier calls were given.                           *)
C6_ScoreIsSquaredDistance ==
    IsCall("get_score") =>
        ret.val = Square(arg.reference[1] - seg.end[1])
                  + Square(arg.reference[2] - seg.end[2])
                  + Square(arg.reference[3] - seg.end[3])
                  + Square(arg.reference[4] - seg.end[4])

\* a second call whose reference differs from the first call's
C6_Witness ==
    /\ IsCall("get_score")
    /\ Len(refLog) = 2 /\ refLog[1] # refLog[2]
    /\ arg.reference = refLog[1]
    /\ score.set /\ ret.val = score.val /\ ret.val > 0

(* C7: Spiral.get_pose(s) has heading theta0 + omega0*s + w*s^2/2 and      *)
(* curvature rate omega0 + w*s (the heading is compared doubled, to stay   *)
(* in whole units).                                                        *)
C7_SpiralHeading ==
    (IsCall("get_pose") /\ seg.kind = "Spiral")
        => /\ 2 * ret.pose[3] = 2 * seg.start[3]
                                + 2 * seg.start[4] * arg.length
                                + seg.w * arg.length * arg.length
           /\ ret.pose[4] = seg.start[4] + seg.w * arg.length

(* C8: for every kind of segment, get_pose(0) is the segment's start pose  *)
(* in all four components.                                                 *)
C8_PoseAtZeroIsStart ==
    (IsCall("get_pose") /\ arg.length = 0) => ret.pose = seg.start

(* C9 as stated: Linear(start, L) constructs only if |omega0| is within    *)
(* the tolerance 1e-4, Arc(start, L) only if |omega0| > 1e-4, and exactly  *)
(* one of the two constructs.                                              *)
C9_ToleranceDecides ==
    /\ (ctor.kind = "Linear" /\ ctor.ok) => Abs(ctor.start[4]) <= Tolerance
    /\ (ctor.kind = "Arc" /\ ctor.ok) => Abs(ctor.start[4]) > Tolerance
    /\ ctor.kind = "Linear" => (ctor.ok # ArcNew(ctor.start, ctor.length).ok)
    /\ ctor.kind = "Arc" => (ctor.ok # LinearNew(ctor.start, ctor.length).ok)

(* C9 as amended: Linear(start, L) constructs exactly when omega0 rounds   *)
(* to zero at four decimals, |omega0| < 0.5e-4, and Arc(start, L) exactly  *)
(* when it does not, |omega0| >= 0.5e-4; so exactly one of the two         *)
(* constructs.                                                             *)
C9_RoundedOmegaDecides ==
    /\ ctor.kind = "Linear" => (ctor.ok <=> 2 * Abs(ctor.start[4]) < Tolerance)
    /\ ctor.kind = "Arc" => (ctor.ok <=> 2 * Abs(ctor.start[4]) >= Tolerance)
    /\ ctor.kind = "Linear" => (ctor.ok # ArcNew(ctor.start, ctor.length).ok)
    /\ ctor.kind = "Arc" => (ctor.ok # LinearNew(ctor.start, ctor.length).ok)

\* an Arc that constructs although |omega0| <= 1e-4
C9_Witness ==
    /\ ctor.kind = "Arc" /\ ctor.ok /\ seg.kind = "Arc"
    /\ Abs(ctor.start[4]) <= Tolerance

(* C10: a get_score(p) whose reference equals that of the get_score call   *)
(* just before it returns the cached score without recomputing; one whose  *)
(* reference differs recomputes and leaves (p, score) as the cached pair.  *)
C10_RepeatedReferenceHitsCache ==
    (IsCall("get_score") /\ Len(refLog) = 2) =>
        IF refLog[1] = refLog[2]
        THEN ~ret.recomputed
        ELSE /\ ret.recomputed
             /\ reference = [set |-> TRUE, pose |-> arg.reference]
             /\ score = [set |-> TRUE, val |-> ret.val]

=============================================================================
